---------------------------- MODULE Spec2Model ----------------------------
(***************************************************************************)
(* Section extraction of PaperMiner: the heuristic extractor               *)
(* (LLMHelper.extract_sections_fallback), the quality gate, the            *)
(* classification bridge, the extraction bridge and the merge              *)
(* (BatchPDFProcessorGUI.extract_sections_with_llm).                       *)
(*                                                                         *)
(* A document is a sequence of lines.  A line is a record of what the      *)
(* regular expressions of the source look at:                              *)
(*   hashes  the number of leading '#' (followed by white space)           *)
(*   prefix  "none", "digits" (a numbering N(.N)* after the marker) or     *)
(*           "roman" (a numbering made of the letters i, v, x)             *)
(*   depth   the number of components of the numbering (0 without one)     *)
(*   n       the first component of the numbering (0 without one)          *)
(*   dot     the numbering is followed by a dot and then a blank           *)
(*   title   the words after marker and numbering, in lower case           *)
(*   tail    free text follows the title on the same line                  *)
(*   len     the number of characters of the line                          *)
(* Lines carry no white space at either end, except the blank line, which  *)
(* is empty.  Sequences are 1-based: position i here is index i-1 of the   *)
(* source; an end position is exclusive as in the source.                  *)
(* The Chinese titles of the pattern tables are left out: no line of the   *)
(* alphabet below carries one.                                             *)
(***************************************************************************)
EXTENDS Integers, Sequences, FiniteSets, TLC

VARIABLES
  doc,                  \* markdown_content.split('\n')
  pc,                   \* position in extract_sections_with_llm
  sections,             \* the section map: name -> content (a sequence of lines)
  unrecognized_headers, \* sequence of <<line index, line, level>>
  need_llm,             \* the escalation flag of the quality gate
  classification,       \* last result of classify_section_titles (NoResult: none)
  llm_sections,         \* last result of extract_sections (NoResult: none)
  request,              \* the request made by the extraction bridge
  saved,                \* save_sections was called with the section map
  before,               \* the section map before the latest step
  calls,                \* the calls of extract_sections_fallback made so far
  model_calls,          \* the calls of the model made by the bridges, in order
  max_retries,          \* call_llm: the attempt limit of the call
  attempts,             \* call_llm: the outcomes of the attempts made so far
  response,             \* extract_sections: the text being parsed
  stages,               \* extract_sections: the stages of the repair ladder run so far
  is_processing,        \* the flag the stop button clears
  worker,               \* position of the worker thread in the batch loop
  total_pdfs,           \* len(items_to_process)
  mode,                 \* "full" (process_pdfs) or "extract" (extract_from_raw)
  current_pdf_index,    \* number of the document in progress (1-based)
  success_count,
  failed_count,
  journal,              \* the documents started and finished and the stop requests, in order
  line,                 \* get_heading_level: line_stripped, character by character
  levels,               \* get_heading_level: the values returned for `line` so far
  section_level         \* the level given to `line` as the start of a section

pipelineVars == <<doc, pc, sections, unrecognized_headers, need_llm, classification,
                  llm_sections, request, saved, before, calls, model_calls>>

callVars == <<max_retries, attempts, response, stages>>

batchVars == <<is_processing, worker, total_pdfs, mode, current_pdf_index,
               success_count, failed_count, journal>>

levelVars == <<line, levels, section_level>>

vars == <<pipelineVars, callVars, batchVars, levelVars>>

(***************************************************************************)
(* Bounds                                                                  *)
(***************************************************************************)
\* longest document of the heuristic-extractor specification
MaxLines == 3
\* longest document of the pipeline specification
MaxDocLines == 3
\* most calls of extract_sections_fallback in a row
MaxCalls == 3
\* largest attempt limit given to call_llm
MaxRetries == 3
\* most documents in a batch
MaxPdfs == 3
\* most marker characters at the head of a line
MaxMarker == 3
\* most characters of a line after the marker
MaxChars == 5

\* len(content.strip()) < 100 (quality gate, extraction bridge, merge)
MinContentLen == 100

(***************************************************************************)
(* The pattern tables                                                      *)
(***************************************************************************)
\* exclude_patterns, the marked forms ^#+\s*T\s*$ and ^#+\s*\d+[.]?\s*T\s*$ (the same titles T in both)
ExcludeTitles ==
  { "acknowledgements", "acknowledgement", "funding", "declarations",
    "declaration", "references", "reference", "appendix", "appendices",
    "bibliography", "competing interests", "competing interest",
    "author contributions", "author contribution", "data availability",
    "conflict of interests", "conflict of interest", "ethics statement",
    "ethics declarations", "ethics declaration", "consent for publication",
    "consent to participate", "availability of data and materials",
    "availability of data and material", "supplementary materials",
    "supplementary material", "supplementary information", "abbreviations",
    "abbreviation", "nomenclature", "glossary" }

\* exclude_patterns, the markerless forms ^T\s
MarkerlessExcludeTitles ==
  { "acknowledgements", "acknowledgement", "funding", "declarations",
    "declaration", "references", "reference", "appendix", "appendices",
    "bibliography", "competing interests", "competing interest",
    "author contributions", "author contribution", "data availability",
    "conflict of interests", "conflict of interest", "ethics statement",
    "ethics declarations", "ethics declaration", "supplementary materials",
    "supplementary material", "supplementary information" }

\* section_patterns['Abstract'], the titles T of ^#+\s*T\s*$
AbstractTitles ==
  { "abstract", "summary", "executive summary" }

\* section_patterns['Introduction'], the titles T of ^#+\s*T\s*$
IntroductionTitles ==
  { "introduction", "background", "motivation", "overview",
    "background and motivation", "related works", "related work",
    "literature review", "background and related works",
    "background and related work", "preliminaries", "problem statement",
    "problem formulation", "problem definition", "state of the art",
    "prior works", "prior work", "previous works", "previous work",
    "theoretical background", "context", "scope", "objectives", "objective",
    "aims and objectives", "aims and objective", "aim and objectives",
    "aim and objective" }

\* section_patterns['Introduction'], the titles T of ^#+\s*[ivx]+[.]?\s*T\s*$
IntroductionRomanTitles ==
  { "introduction" }

\* section_patterns['Methods'], the titles T of ^#+\s*T\s*$
MethodsTitles ==
  { "methods", "method", "methodology", "materials", "material",
    "materials and methods", "materials and method", "material and methods",
    "material and method", "experimental", "experimenta",
    "experimental methods", "experimental method", "experimental procedures",
    "experimental procedure", "experimental section", "experimental setup",
    "experimental design", "experiments", "experiment", "procedures",
    "procedure", "simulation", "simulation setup", "simulation model",
    "simulation framework", "simulation environment", "numerical simulation",
    "numerical methods", "numerical method", "numerical analysis", "models",
    "model", "modeling", "modelling", "model description", "model formulation",
    "model development", "model construction", "mathematical model",
    "mathematical formulation", "mathematical framework", "theoretical model",
    "theoretical framework", "theoretical formulation", "implementation",
    "system design", "system architecture", "system implementation",
    "system description", "design", "architecture", "framework", "algorithms",
    "algorithm", "approach", "proposed method", "proposed approach",
    "proposed algorithm", "proposed model", "proposed system",
    "proposed framework", "our method", "our approach", "our algorithm",
    "our model", "our system", "our framework", "the proposed method",
    "the proposed approach", "the proposed algorithm", "the proposed model",
    "the proposed system", "technical approach", "technical details",
    "technical description", "data collection", "data acquisition",
    "data preparation", "data processing", "dataset", "sample preparation",
    "sample collection", "classification", "formulation",
    "problem formulation", "computational methods", "computational method",
    "computational approach", "computational framework" }

\* section_patterns['Methods'], the titles T of ^#+\s*[ivx]+[.]?\s*T\s*$
MethodsRomanTitles ==
  { "methods", "method" }

\* section_patterns['Results & Discussion'], the titles T of ^#+\s*T\s*$
ResultsDiscussionTitles ==
  { "results and discussions", "results and discussion",
    "result and discussions", "result and discussion", "results", "result",
    "experimental results", "experimental result", "simulation results",
    "simulation result", "numerical results", "numerical result", "findings",
    "finding", "observations", "observation", "discussions", "discussion",
    "evaluation", "performance evaluation", "performance analysis",
    "performance assessment", "analysis", "experimental evaluation",
    "experimental analysis", "data analysis", "statistical analysis",
    "verification", "validation", "model verification", "model validation",
    "experimental validation", "case study", "case studies", "application",
    "applications", "experiments", "experiment", "comparison",
    "comparative analysis", "comparative study", "comparative evaluation",
    "performance", "benchmark", "benchmarking" }

\* section_patterns['Results & Discussion'], the titles T of ^#+\s*[ivx]+[.]?\s*T\s*$
ResultsDiscussionRomanTitles ==
  { "results and discussions", "results and discussion",
    "result and discussions", "result and discussion", "results", "result",
    "discussions", "discussion" }

\* section_patterns['Conclusion'], the titles T of ^#+\s*T\s*$
ConclusionTitles ==
  { "conclusions", "conclusion", "concluding remarks", "concluding remark",
    "summary and conclusions", "summary and conclusion",
    "conclusions and future works", "conclusions and future work",
    "conclusion and future works", "conclusion and future work",
    "conclusions and outlook", "conclusion and outlook", "summary",
    "final remarks", "final remark", "closing remarks", "closing remark",
    "future works", "future work", "future directions", "future direction",
    "future research", "future perspectives", "future perspective", "outlook",
    "perspectives", "perspective", "summary and future works",
    "summary and future work", "summary and outlook", "contributions",
    "contribution", "implications", "implication" }

\* section_patterns['Conclusion'], the titles T of ^#+\s*[ivx]+[.]?\s*T\s*$
ConclusionRomanTitles ==
  { "conclusions", "conclusion" }

\* the keys of section_patterns, in the order of the dictionary
SectionNames ==
  <<"Abstract", "Introduction", "Methods", "Results & Discussion", "Conclusion">>

\* critical_sections
CriticalSections == { SectionNames[k] : k \in DOMAIN SectionNames }

(***************************************************************************)
(* Lines                                                                   *)
(***************************************************************************)
Line(h, p, d, n, dt, t, tl, ln) ==
  [hashes |-> h, prefix |-> p, depth |-> d, n |-> n, dot |-> dt,
   title |-> t, tail |-> tl, len |-> ln]

\* a line of running text of ln characters
Text(ln) == Line(0, "none", 0, 0, FALSE, "", TRUE, ln)
\* the empty line
Blank == Line(0, "none", 0, 0, FALSE, "", FALSE, 0)

\* "# Abstract"
HAbstract == Line(1, "none", 0, 0, FALSE, "abstract", FALSE, 10)
\* "Abstract: we study"
PAbstract == Line(0, "none", 0, 0, FALSE, "abstract", TRUE, 18)
\* "# 1. Introduction"
HIntroduction == Line(1, "digits", 1, 1, TRUE, "introduction", FALSE, 17)
\* "# 2. Methods"
HMethods == Line(1, "digits", 1, 2, TRUE, "methods", FALSE, 12)
\* "## Methods"
HSubMethods == Line(2, "none", 0, 0, FALSE, "methods", FALSE, 10)
\* "# 3. Results"
HResults == Line(1, "digits", 1, 3, TRUE, "results", FALSE, 12)
\* "# 4. Discussion"
HDiscussion == Line(1, "digits", 1, 4, TRUE, "discussion", FALSE, 15)
\* "# 5. Conclusion"
HConclusion == Line(1, "digits", 1, 5, TRUE, "conclusion", FALSE, 15)
\* "# Summary"
HSummary == Line(1, "none", 0, 0, FALSE, "summary", FALSE, 9)
\* "# Acknowledgements"
HAcknowledgements == Line(1, "none", 0, 0, FALSE, "acknowledgements", FALSE, 18)
\* "## Funding"
HSubFunding == Line(2, "none", 0, 0, FALSE, "funding", FALSE, 10)
\* "References are listed below"
PReferences == Line(0, "none", 0, 0, FALSE, "references", TRUE, 27)
\* "# 6. Numerical examples"
HNumbered == Line(1, "digits", 1, 6, TRUE, "numerical examples", FALSE, 23)
\* "# 7. Case of a plate"
HNumberedNext == Line(1, "digits", 1, 7, TRUE, "case of a plate", FALSE, 20)
\* "## 6.1. Mesh"
HSubNumbered == Line(2, "digits", 2, 6, TRUE, "mesh", FALSE, 12)
\* "# (1) KSlF"
HOther == Line(1, "none", 0, 0, FALSE, "(1) kslf", FALSE, 10)
\* a paragraph of 120 characters
LongBody == Text(120)
\* a paragraph of 40 characters

(***************************************************************************)
(* Heading Classifier                                                      *)
(***************************************************************************)
\* re.match(r'^#+\s', line_stripped)
IsMarked(l) == l.hashes >= 1

\* ^#+\s*T\s*$
MarkedForm(l, titles) ==
  l.hashes >= 1 /\ l.prefix = "none" /\ ~l.tail /\ l.title \in titles

\* ^#+\s*\d+[\.]?\s*T\s*$ : one number, with or without its dot
NumberedForm(l, titles) ==
  l.hashes >= 1 /\ l.prefix = "digits" /\ l.depth = 1 /\ ~l.tail /\ l.title \in titles

\* ^#+\s*[ivx]+[\.]?\s*T\s*$
RomanForm(l, titles) ==
  l.hashes >= 1 /\ l.prefix = "roman" /\ ~l.tail /\ l.title \in titles

\* ^T\s : no marker, the title and then more text
MarkerlessForm(l, titles) ==
  l.hashes = 0 /\ l.prefix = "none" /\ l.tail /\ l.title \in titles

\* any(re.match(pattern, line_stripped, re.IGNORECASE) for pattern in patterns)
MatchesSection(name, l) ==
  CASE name = "Abstract" ->
         \/ MarkedForm(l, AbstractTitles)
         \/ MarkerlessForm(l, {"abstract"})
    [] name = "Introduction" ->
         \/ MarkedForm(l, IntroductionTitles)
         \/ NumberedForm(l, IntroductionTitles)
         \/ RomanForm(l, IntroductionRomanTitles)
    [] name = "Methods" ->
         \/ MarkedForm(l, MethodsTitles)
         \/ NumberedForm(l, MethodsTitles)
         \/ RomanForm(l, MethodsRomanTitles)
    [] name = "Results & Discussion" ->
         \/ MarkedForm(l, ResultsDiscussionTitles)
         \/ NumberedForm(l, ResultsDiscussionTitles)
         \/ RomanForm(l, ResultsDiscussionRomanTitles)
    [] name = "Conclusion" ->
         \/ MarkedForm(l, ConclusionTitles)
         \/ NumberedForm(l, ConclusionTitles)
         \/ RomanForm(l, ConclusionRomanTitles)
    [] OTHER -> FALSE

\* is_exclude_section
is_exclude_section(l) ==
  \/ MarkedForm(l, ExcludeTitles)
  \/ NumberedForm(l, ExcludeTitles)
  \/ MarkerlessForm(l, MarkerlessExcludeTitles)

\* get_heading_level: the numbering first, then the marker
get_heading_level(l) ==
  IF l.prefix = "digits" /\ l.dot THEN l.depth
  ELSE IF l.hashes >= 1 THEN l.hashes
  ELSE 0

\* get_section_name_for_header: the first section, in dictionary order, one
\* of whose patterns matches; "" when none does
get_section_name_for_header(l) ==
  LET hits == { k \in DOMAIN SectionNames : MatchesSection(SectionNames[k], l) }
  IN  IF hits = {} THEN ""
      ELSE SectionNames[CHOOSE k \in hits : \A j \in hits : k <= j]

\* re.match(r'^#+\s*\d+[\.]?\s', line_stripped)
is_numbered_heading(l) ==
  l.hashes >= 1 /\ l.prefix = "digits" /\ l.depth = 1

(***************************************************************************)
(* Maps (Python dictionaries) and contents                                 *)
(***************************************************************************)
EmptyMap == [k \in {} |-> <<>>]

Put(m, k, v) == [x \in (DOMAIN m) \cup {k} |-> IF x = k THEN v ELSE m[x]]

Remove(m, ks) == [x \in (DOMAIN m) \ ks |-> m[x]]

\* a + '\n\n' + b for two texts given as sequences of lines
JoinBlank(a, b) == a \o <<Blank>> \o b

RECURSIVE SumLen(_)
SumLen(s) == IF s = <<>> THEN 0 ELSE Head(s).len + SumLen(Tail(s))

\* len('\n'.join(s))
RawLen(s) == IF s = <<>> THEN 0 ELSE SumLen(s) + Len(s) - 1

\* s.strip(): the blank lines at both ends go (lines carry no blanks themselves)
RECURSIVE StripLeft(_)
StripLeft(s) ==
  IF s # <<>> /\ Head(s).len = 0 THEN StripLeft(Tail(s)) ELSE s

RECURSIVE StripRight(_)
StripRight(s) ==
  IF s # <<>> /\ s[Len(s)].len = 0 THEN StripRight(SubSeq(s, 1, Len(s) - 1)) ELSE s

Strip(s) == StripRight(StripLeft(s))

\* len(content.strip())
StrippedLen(s) == RawLen(Strip(s))

(***************************************************************************)
(* Boundary Resolver and Heuristic Extractor (extract_sections_fallback)   *)
(***************************************************************************)
\* SectionStart with the last matching line taken
SectionStartLast(lines, name) ==
  LET hits == { i \in DOMAIN lines : MatchesSection(name, lines[i]) }
  IN  IF hits = {} THEN 0 ELSE CHOOSE i \in hits : \A j \in hits : j <= i

\* the first line one of the section's patterns matches; 0 when there is none
SectionStart(lines, name) ==
  LET hits == { i \in DOMAIN lines : MatchesSection(name, lines[i]) }
  IN  IF hits = {} THEN 0 ELSE CHOOSE i \in hits : \A j \in hits : i <= j

\* section_level: the level of the start line, 1 for a line without level
SectionLevel(l) ==
  IF get_heading_level(l) = 0 THEN 1 ELSE get_heading_level(l)

\* EndsSection with the exclusion test made on marked lines only
EndsSectionMarkedOnly(l, name, level) ==
  /\ IsMarked(l)
  /\ \/ is_exclude_section(l)
     \/ /\ get_heading_level(l) > 0
        /\ get_heading_level(l) <= level
        /\ LET matched_section == get_section_name_for_header(l)
           IN  \/ matched_section # "" /\ matched_section # name
               \/ /\ get_heading_level(l) = level
                  /\ matched_section = ""
                  /\ is_numbered_heading(l)

\* EndsSection with only the headings of the section's own level looked at
EndsSectionSameLevel(l, name, level) ==
  \/ is_exclude_section(l)
  \/ /\ IsMarked(l)
     /\ get_heading_level(l) = level
     /\ LET matched_section == get_section_name_for_header(l)
        IN  \/ matched_section # "" /\ matched_section # name
            \/ matched_section = "" /\ is_numbered_heading(l)

\* EndsSection with every heading of the section's level or above ending it
EndsSectionAnyHeading(l, name, level) ==
  \/ is_exclude_section(l)
  \/ /\ IsMarked(l)
     /\ get_heading_level(l) > 0
     /\ get_heading_level(l) <= level
     /\ get_section_name_for_header(l) # name

\* EndsSection with every numbered heading of the section's level ending it,
\* one that matches the section itself included
EndsSectionAnyNumbered(l, name, level) ==
  \/ is_exclude_section(l)
  \/ /\ IsMarked(l)
     /\ get_heading_level(l) > 0
     /\ get_heading_level(l) <= level
     /\ LET matched_section == get_section_name_for_header(l)
        IN  \/ matched_section # "" /\ matched_section # name
            \/ /\ get_heading_level(l) = level
               /\ is_numbered_heading(l)

\* the body of the loop that looks for the end: does line l end the section
\* `name` of level `level`
EndsSection(l, name, level) ==
  \/ is_exclude_section(l)
  \/ /\ IsMarked(l)
     /\ get_heading_level(l) > 0
     /\ get_heading_level(l) <= level
     /\ LET matched_section == get_section_name_for_header(l)
        IN  \/ matched_section # "" /\ matched_section # name
            \/ /\ get_heading_level(l) = level
               /\ matched_section = ""
               /\ is_numbered_heading(l)

\* section_end: the first line from i on that ends the section, len(lines) if none
RECURSIVE SectionEnd(_, _, _, _)
SectionEnd(lines, name, level, i) ==
  IF i > Len(lines) THEN Len(lines) + 1
  ELSE IF EndsSection(lines[i], name, level) THEN i
  ELSE SectionEnd(lines, name, level, i + 1)

\* '\n'.join(lines[section_start:section_end])
SectionContent(lines, name) ==
  LET s == SectionStart(lines, name)
      e == SectionEnd(lines, name, SectionLevel(lines[s]), s + 1)
  IN  SubSeq(lines, s, e - 1)

\* FreshSections with the map of the previous call kept
KeptSections(previous) == previous

\* sections = {} at the start of every call
FreshSections(previous) == EmptyMap

\* the special case after the loop: 'Results' and 'Discussion' are merged
MergeResultsDiscussion(m) ==
  IF "Results" \in DOMAIN m /\ "Discussion" \in DOMAIN m
  THEN Remove(Put(m, "Results & Discussion",
                  JoinBlank(m["Results"], m["Discussion"])),
              {"Results", "Discussion"})
  ELSE m

\* IsUnrecognized with the headings of every level taken
IsUnrecognizedAnyLevel(l) ==
  /\ IsMarked(l)
  /\ get_section_name_for_header(l) = ""
  /\ ~is_exclude_section(l)

\* the level-1 marked headings that match no section and no exclusion
IsUnrecognized(l) ==
  /\ IsMarked(l)
  /\ get_heading_level(l) = 1
  /\ get_section_name_for_header(l) = ""
  /\ ~is_exclude_section(l)

RECURSIVE Unrecognized(_, _)
Unrecognized(lines, i) ==
  IF i > Len(lines) THEN <<>>
  ELSE IF IsUnrecognized(lines[i])
       THEN <<<<i - 1, lines[i], get_heading_level(lines[i])>>>>
              \o Unrecognized(lines, i + 1)
       ELSE Unrecognized(lines, i + 1)

\* extract_sections_fallback with the first exclusion section kept in the
\* map, under the key "References"
ExtractWithExclusions(lines, initial) ==
  LET found == { name \in CriticalSections : SectionStart(lines, name) # 0 }
      filled == [name \in (DOMAIN initial) \cup found |->
                   IF name \in found THEN SectionContent(lines, name)
                   ELSE initial[name]]
      excluded == { i \in DOMAIN lines : is_exclude_section(lines[i]) }
  IN  [sections |->
         IF excluded = {} THEN MergeResultsDiscussion(filled)
         ELSE Put(MergeResultsDiscussion(filled), "References",
                  SubSeq(lines, CHOOSE i \in excluded : \A j \in excluded : i <= j,
                         Len(lines))),
       unrecognized |-> Unrecognized(lines, 1)]

\* extract_sections_fallback(markdown_content, return_unrecognized=True)
extract_sections_fallback(lines, initial) ==
  LET found == { name \in CriticalSections : SectionStart(lines, name) # 0 }
      filled == [name \in (DOMAIN initial) \cup found |->
                   IF name \in found THEN SectionContent(lines, name)
                   ELSE initial[name]]
  IN  [sections |-> MergeResultsDiscussion(filled),
       unrecognized |-> Unrecognized(lines, 1)]

(***************************************************************************)
(* Quality gate, classification bridge, extraction bridge and merge        *)
(* (extract_sections_with_llm)                                             *)
(***************************************************************************)
\* [s for s in critical_sections if s not in sections], in that order
MissingCritical(m) ==
  SelectSeq(SectionNames, LAMBDA s : s \notin DOMAIN m)

\* the names whose content has fewer than 100 characters once stripped
ShortSections(m) ==
  { name \in DOMAIN m : StrippedLen(m[name]) < MinContentLen }

\* NeedLLM with the "more than 8 sections" case raising the flag too
NeedLLMManySections(m) ==
  IF DOMAIN m = {} THEN TRUE
  ELSE \/ MissingCritical(m) # <<>>
       \/ ShortSections(m) # {}
       \/ Cardinality(DOMAIN m) < 2
       \/ Cardinality(DOMAIN m) > 8

\* the quality check: does the heuristic result need the model
NeedLLM(m) ==
  IF DOMAIN m = {} THEN TRUE
  ELSE \/ MissingCritical(m) # <<>>
       \/ ShortSections(m) # {}
       \/ Cardinality(DOMAIN m) < 2

\* None, or the failure of a call
NoResult == [ok |-> FALSE, map |-> EmptyMap]
Result(m) == [ok |-> TRUE, map |-> m]
\* `if classification:` and `if llm_sections:`: not None and not empty
Truthy(r) == r.ok /\ DOMAIN r.map # {}

\* classify_section_titles: the answer of the model maps the numbers 1..k of
\* the headers to section types; the result maps header text to type, without
\* the "Unknown" ones; a header text that occurs twice keeps its last type
ClassificationOf(headers, answer) ==
  LET kept == { i \in DOMAIN headers : answer[i] # "Unknown" }
      texts == { headers[i][2] : i \in kept }
      last(t) == CHOOSE i \in kept :
                   /\ headers[i][2] = t
                   /\ \A j \in kept : headers[j][2] = t => j <= i
  IN  [t \in texts |-> answer[last(t)]]

\* re.match(r'^(#+)\s+(\d+)\.', line) and
\* re.match(r'^(#+)\s+(\d+)(?:\.(\d+))*\.', line): a marker, a number, a dot
BridgeNumbered(l) ==
  l.hashes >= 1 /\ l.prefix = "digits" /\ (l.dot \/ l.depth >= 2)

\* match.group(3) is not None: the numbering has a sub-number before its dot
HasSubNumber(l) == IF l.dot THEN l.depth >= 2 ELSE l.depth >= 3

\* line.startswith('# ')
IsTopMarked(l) == l.hashes = 1

\* does line l end the content that started at the header `start`
BridgeEnds(l, start) ==
  IF BridgeNumbered(start)
  THEN IF BridgeNumbered(l)
       THEN \/ l.hashes = start.hashes /\ ~HasSubNumber(l) /\ l.n > start.n
            \/ l.hashes < start.hashes
       ELSE IsTopMarked(l)
  ELSE IsTopMarked(l)

RECURSIVE BridgeEnd(_, _, _)
BridgeEnd(lines, start, i) ==
  IF i > Len(lines) THEN Len(lines) + 1
  ELSE IF BridgeEnds(lines[i], start) THEN i
  ELSE BridgeEnd(lines, start, i + 1)

\* the first line equal to the header text
HeaderPosition(lines, text) ==
  CHOOSE i \in DOMAIN lines :
    lines[i] = text /\ \A j \in DOMAIN lines : lines[j] = text => i <= j

\* the content of the headers classified as section_type: from the first of
\* them to the end found after the last of them
ClassifiedContent(lines, cls, section_type) ==
  LET positions == { HeaderPosition(lines, t) :
                       t \in { h \in DOMAIN cls : cls[h] = section_type } }
      start_idx == CHOOSE i \in positions : \A j \in positions : i <= j
      last_idx == CHOOSE i \in positions : \A j \in positions : j <= i
      section_end == BridgeEnd(lines, lines[start_idx], last_idx + 1)
  IN  SubSeq(lines, start_idx, section_end - 1)

\* FoldClassified with the classified content put in place of the existing one
FoldClassifiedReplace(lines, m, cls) ==
  LET types == { cls[h] : h \in DOMAIN cls }
  IN  [name \in (DOMAIN m) \cup types |->
         IF name \notin types THEN m[name]
         ELSE ClassifiedContent(lines, cls, name)]

\* FoldClassified with the classified content put after the existing one
FoldClassifiedAppend(lines, m, cls) ==
  LET types == { cls[h] : h \in DOMAIN cls }
  IN  [name \in (DOMAIN m) \cup types |->
         IF name \notin types THEN m[name]
         ELSE IF name \in DOMAIN m
              THEN JoinBlank(m[name], ClassifiedContent(lines, cls, name))
              ELSE ClassifiedContent(lines, cls, name)]

\* the section map after the classified headers are folded in
FoldClassified(lines, m, cls) ==
  LET types == { cls[h] : h \in DOMAIN cls }
  IN  [name \in (DOMAIN m) \cup types |->
         IF name \notin types THEN m[name]
         ELSE IF name \in DOMAIN m
              THEN JoinBlank(ClassifiedContent(lines, cls, name), m[name])
              ELSE ClassifiedContent(lines, cls, name)]

\* MissingSections without the short entries
MissingOnly(m) == [missing |-> MissingCritical(m), short |-> {}]

\* missing_sections of the partial request: the critical names that are absent,
\* then the names of the short entries
MissingSections(m) ==
  [missing |-> MissingCritical(m), short |-> ShortSections(m)]

\* Replaces without the test that the heuristic content is short
ReplacesWhenLonger(old, new) ==
  StrippedLen(new) > MinContentLen /\ StrippedLen(new) > StrippedLen(old)

\* does the content of the model replace the heuristic content
Replaces(old, new) ==
  StrippedLen(old) < MinContentLen /\ StrippedLen(new) > MinContentLen

\* the merge of the model's sections into a non-empty section map
MergeSections(m, llm) ==
  [name \in (DOMAIN m) \cup (DOMAIN llm) |->
     IF name \notin DOMAIN m THEN llm[name]
     ELSE IF name \in DOMAIN llm /\ Replaces(m[name], llm[name]) THEN llm[name]
     ELSE m[name]]

(***************************************************************************)
(* Inputs                                                                  *)
(***************************************************************************)
\* the lines of the documents given to the heuristic extractor
Alphabet ==
  { HAbstract, PAbstract, HIntroduction, HMethods, HSubMethods, HSummary,
    HAcknowledgements, HSubFunding, PReferences, HNumbered, HSubNumbered,
    HOther, LongBody, Blank }

\* text.split('\n') has at least one line
Docs == UNION { [1..n -> Alphabet] : n \in 1..MaxLines }

\* the lines of the documents the heuristic extractor is called on repeatedly
RepeatAlphabet ==
  { HAbstract, HMethods, HNumbered, HAcknowledgements, LongBody, Blank }

RepeatDocs == UNION { [1..n -> RepeatAlphabet] : n \in 1..MaxLines }

\* a second document, processed between two calls on the first
OtherDocument == <<HAbstract, LongBody, HMethods>>

\* the lines of the documents given to the pipeline
PipelineAlphabet ==
  { HAbstract, HMethods, HResults, HDiscussion, HNumbered, HNumberedNext,
    HSubNumbered, HOther, HAcknowledgements, LongBody, Blank }

\* a heading with its paragraph ("long"), alone ("none"), or with a paragraph
\* that leaves the section at 99 characters, followed by three empty lines
\* ("padded")
Block(h, body) ==
  IF body = "long" THEN <<h, LongBody>>
  ELSE IF body = "padded" THEN <<h, Text(98 - h.len), Blank, Blank, Blank>>
  ELSE <<h>>

\* complete papers: the five sections in order, the section `short` (if any)
\* with the body `body` in place of its paragraph, and one of: nothing more, an
\* unrecognized numbered section before the conclusion, an unrecognized
\* heading in place of the Methods heading, three unrecognized sections after
\* the conclusion
BodyOf(name, short, body) == IF name = short THEN body ELSE "long"

Paper(short, body, variant) ==
  Block(HAbstract, BodyOf("Abstract", short, body))
  \o Block(HIntroduction, BodyOf("Introduction", short, body))
  \o Block(IF variant = "renamed" THEN HNumbered ELSE HMethods,
           BodyOf("Methods", short, body))
  \o Block(HResults, BodyOf("Results & Discussion", short, body))
  \o (IF variant = "extra" THEN <<HNumberedNext, LongBody>> ELSE <<>>)
  \o Block(HConclusion, BodyOf("Conclusion", short, body))
  \o (IF variant = "appended"
      THEN <<HNumbered, LongBody, HOther, LongBody, HNumberedNext, LongBody>>
      ELSE <<>>)

CompletePapers ==
  { Paper(short, body, variant) :
      short \in CriticalSections \cup {"none"},
      body \in {"none", "padded"},
      variant \in {"plain", "extra", "renamed", "appended"} }

PipelineDocs ==
  UNION { [1..n -> PipelineAlphabet] : n \in 1..MaxDocLines } \cup CompletePapers

\* the section types the model answers with when it classifies a header
AnswerTypes == {"Methods", "Results", "Unknown"}

\* what classify_section_titles can return for the headers
ClassificationResults(headers) ==
  {NoResult} \cup
  { Result(ClassificationOf(headers, answer)) :
      answer \in [DOMAIN headers -> AnswerTypes] }

\* the texts the model returns as the content of a section
ModelContents == { <<Text(99)>>, <<Text(100)>>, <<Text(101)>> }

\* the keys of the model's answer to an extraction request
AnswerNames == {"Abstract", "Title"}

\* what extract_sections can return
ExtractionResults ==
  {NoResult} \cup
  { Result(m) : m \in UNION { [ks -> ModelContents] : ks \in SUBSET AnswerNames } }

\* no request made: "none" when none was needed, "no_template" when the prompt
\* file was missing
NoRequest(why) == [shape |-> why, missing |-> <<>>, short |-> {}]

\* the section maps given to the merge alone
MergeNames == {"Abstract", "Methods", "Title"}

HeuristicContents ==
  { <<HAbstract>>, <<HAbstract, Text(88)>>, <<HAbstract, Text(89)>>,
    <<HAbstract, Text(90)>>, <<HAbstract, Text(88), Blank, Blank>> }

MergeModelContents == ModelContents \cup { <<Text(100), Blank>> }

HeuristicMaps ==
  UNION { [ks -> HeuristicContents] : ks \in (SUBSET MergeNames) \ {{}} }

ModelMaps ==
  UNION { [ks -> MergeModelContents] : ks \in SUBSET MergeNames }

\* the section maps given to the quality gate alone
GateNames ==
  CriticalSections \cup {"Results", "Discussion", "Title", "Keywords"}

GateContents == { <<Text(99)>>, <<Text(100)>> }

GateMaps == UNION { [ks -> GateContents] : ks \in SUBSET GateNames }
(***************************************************************************)
(* The model service: call_llm and the parsing of its answer               *)
(***************************************************************************)
\* max_retries: int = 3
DefaultMaxRetries == 3

\* what one attempt (_call_deepseek) can do: raise requests.exceptions.Timeout,
\* raise another exception, return None (no choice in the answer), return the
\* empty string, return a text
Raises == {[kind |-> "timeout"], [kind |-> "error"]}

\* a text of the model, by what the parsing looks at:
\*   open   the text starts with "```json" ("json"), with "```" ("plain") or not
\*   close  the text ends with "```"
\*   stray  a backslash that JSON does not allow in a string: "plain" (as in
\*          \alpha), "u" (as in \upsilon: the substitution leaves \u alone),
\*          "escaped" once doubled, or "none"
\*   body   "object" (a JSON object of sections), "empty_object" ({}),
\*          "open_string" (cut inside the string that is the value of a key),
\*          "open_quote" (cut right after the quote that opens a string),
\*          "open_nested" (cut inside a string of a nested object),
\*          "literal" (a Python dict in single quotes), "garbage" (prose)
ModelText(o, c, s, b) == [open |-> o, close |-> c, stray |-> s, body |-> b]

Bodies ==
  {"object", "empty_object", "open_string", "open_quote", "open_nested",
   "literal", "garbage"}

ModelTexts ==
  { ModelText(o, c, s, b) :
      o \in {"none", "json", "plain"}, c \in BOOLEAN,
      s \in {"none", "plain", "u"}, b \in Bodies \ {"empty_object"} }
  \cup { ModelText(o, c, "none", "empty_object") :
           o \in {"none", "json", "plain"}, c \in BOOLEAN }

\* Raised with the empty answers taken as failures
RaisedOrEmpty(o) == o.kind \in {"timeout", "error", "none", "empty"}

\* the attempt ended in `except requests.exceptions.Timeout` or `except Exception`
Raised(o) == o.kind \in {"timeout", "error"}

\* the return values of _call_deepseek
NoneValue == [kind |-> "none"]
EmptyText == [kind |-> "empty"]
TextValue(t) == [kind |-> "text", text |-> t]

Returns == {NoneValue, EmptyText} \cup { TextValue(t) : t \in ModelTexts }

\* `if not response:` and `if verbose and result:`
Falsy(v) == v.kind \in {"none", "empty"}

\* the removal of the code fence at both ends
StripFences(t) == [t EXCEPT !.open = "none", !.close = FALSE]

\* EscapeBackslashes left out
KeepBackslashes(t) == t

\* re.sub(r'(?<!\\)\\(?!["\\/bfnrtu])', r'\\\\', response)
EscapeBackslashes(t) ==
  [t EXCEPT !.stray = IF @ = "plain" THEN "escaped" ELSE @]

Fenced(t) == t.open # "none" \/ t.close

\* json.loads: "" when the text parses, else the kind of the JSONDecodeError
StrictError(t) ==
  IF Fenced(t) THEN "other"
  ELSE IF t.stray \in {"plain", "u"} THEN "escape"
  ELSE IF t.body \in {"open_string", "open_quote", "open_nested"}
       THEN "unterminated"
  ELSE IF t.body \in {"object", "empty_object", "object_cut"} THEN ""
  ELSE "other"

\* the closing quote (unless the text ends with one) and the closing brace
\* (unless it ends with one) appended to the text
CloseTruncated(t) ==
  [t EXCEPT !.body = IF @ = "open_string" THEN "object_cut" ELSE "broken"]

\* ast.literal_eval accepts the text
LenientParses(t) ==
  /\ ~Fenced(t)
  /\ t.stray # "u"
  /\ t.body \in {"literal", "object", "empty_object", "object_cut"}

\* the sections a text holds, whole or cut
ParsedSections == [name \in {"Abstract"} |-> <<Text(101)>>]
CutSections == [name \in {"Abstract"} |-> <<Text(60)>>]

ValueOf(t) ==
  IF t.body = "empty_object" THEN EmptyMap
  ELSE IF t.body = "object_cut" THEN CutSections
  ELSE ParsedSections

\* no call of the model in progress
NoCall ==
  /\ max_retries = DefaultMaxRetries
  /\ attempts = <<>>
  /\ response = NoneValue
  /\ stages = <<>>

\* no batch in progress
NoBatch ==
  /\ is_processing = FALSE
  /\ worker = "idle"
  /\ total_pdfs = 0
  /\ mode = "full"
  /\ current_pdf_index = 0
  /\ success_count = 0
  /\ failed_count = 0
  /\ journal = <<>>


\* no line given to get_heading_level; section_level = 0 before the search
NoLevel ==
  /\ line = <<>>
  /\ levels = <<>>
  /\ section_level = 0

(***************************************************************************)
(* The pipeline of one document: extract_sections_with_llm                 *)
(***************************************************************************)
PipelineIdle ==
  /\ pc = "start"
  /\ sections = EmptyMap
  /\ unrecognized_headers = <<>>
  /\ need_llm = FALSE
  /\ classification = NoResult
  /\ llm_sections = NoResult
  /\ request = NoRequest("none")
  /\ saved = FALSE
  /\ before = EmptyMap
  /\ calls = <<>>
  /\ model_calls = <<>>

Idle == PipelineIdle /\ NoCall /\ NoBatch /\ NoLevel

Init == doc \in PipelineDocs /\ Idle

\* sections, unrecognized_headers = llm.extract_sections_fallback(...)
ExtractFallback ==
  /\ pc = "start"
  /\ LET r == extract_sections_fallback(doc, FreshSections(sections))
     IN  /\ sections' = r.sections
         /\ unrecognized_headers' = r.unrecognized
  /\ before' = sections
  /\ pc' = "quality"
  /\ UNCHANGED <<doc, need_llm, classification, llm_sections, request, saved, calls,
                 model_calls, callVars, batchVars, levelVars>>

\* the quality check
QualityCheck ==
  /\ pc = "quality"
  /\ need_llm' = NeedLLM(sections)
  /\ pc' = "classify"
  /\ UNCHANGED <<doc, sections, unrecognized_headers, classification,
                 llm_sections, request, saved, before, calls, model_calls,
                 callVars, batchVars, levelVars>>

\* `if unrecognized_headers and sections:` without the test of the map
ShouldClassifyAnyMap(headers, m) == headers # <<>>

\* ShouldClassify with the classification bridge never entered
ShouldClassifyNever(headers, m) == FALSE

\* `if unrecognized_headers and sections:`
ShouldClassify(headers, m) == headers # <<>> /\ DOMAIN m # {}

\* the classification of the unrecognized headers and the fold of its result
ClassificationBridge ==
  /\ pc = "classify"
  /\ before' = sections
  /\ pc' = "extract"
  /\ IF ShouldClassify(unrecognized_headers, sections)
     THEN \E r \in ClassificationResults(unrecognized_headers) :
            /\ classification' = r
            /\ model_calls' = Append(model_calls, "classify")
            /\ IF Truthy(r)
               THEN LET folded == FoldClassified(doc, sections, r.map)
                    IN  /\ sections' = folded
                        /\ need_llm' = IF MissingCritical(folded) = <<>>
                                       THEN FALSE ELSE need_llm
               ELSE UNCHANGED <<sections, need_llm>>
     ELSE UNCHANGED <<sections, need_llm, classification, model_calls>>
  /\ UNCHANGED <<doc, unrecognized_headers, llm_sections, request, saved, calls,
                 callVars, batchVars, levelVars>>

\* the request to the model for the sections still missing or short, and the
\* merge of its answer
ExtractionBridge ==
  /\ pc = "extract"
  /\ before' = sections
  /\ pc' = "finish"
  /\ LET targets == MissingSections(sections)
         shape == IF DOMAIN sections = {} THEN "full"
                  ELSE IF targets.missing # <<>> \/ targets.short # {} THEN "partial"
                  ELSE "none"
     IN  IF need_llm /\ shape # "none"
         THEN /\ need_llm' = need_llm
              /\ \E template_exists \in BOOLEAN :
                   IF ~template_exists
                   THEN /\ request' = NoRequest("no_template")
                        /\ UNCHANGED <<sections, llm_sections, model_calls>>
                   ELSE \E r \in ExtractionResults :
                          /\ request' = IF shape = "full"
                                        THEN [shape |-> "full", missing |-> <<>>, short |-> {}]
                                        ELSE [shape |-> "partial",
                                              missing |-> targets.missing,
                                              short |-> targets.short]
                          /\ llm_sections' = r
                          /\ model_calls' = Append(model_calls, "extract")
                          /\ sections' = IF ~Truthy(r) THEN sections
                                         ELSE IF DOMAIN sections = {} THEN r.map
                                         ELSE MergeSections(sections, r.map)
         ELSE /\ need_llm' = FALSE
              /\ UNCHANGED <<sections, llm_sections, request, model_calls>>
  /\ UNCHANGED <<doc, unrecognized_headers, classification, saved, calls,
                 callVars, batchVars, levelVars>>

\* Saves for a map that has the five sections only
SavesWhenComplete(m) == \A name \in CriticalSections : name \in DOMAIN m

\* `if not sections: return`, else save_sections(sections, sections_dir)
Saves(m) == DOMAIN m # {}

\* the end: the sections are saved unless there is none
Finish ==
  /\ pc = "finish"
  /\ saved' = Saves(sections)
  /\ pc' = "done"
  /\ UNCHANGED <<doc, sections, unrecognized_headers, need_llm, classification,
                 llm_sections, request, before, calls, model_calls,
                 callVars, batchVars, levelVars>>

Next ==
  \/ ExtractFallback
  \/ QualityCheck
  \/ ClassificationBridge
  \/ ExtractionBridge
  \/ Finish

Spec == Init /\ [][Next]_vars

(***************************************************************************)
(* The heuristic extractor alone, called several times                     *)
(***************************************************************************)
InitFallback == doc \in Docs /\ Idle

\* one call of extract_sections_fallback(d), recorded with its result
FallbackCall(d) ==
  /\ Len(calls) < MaxCalls
  /\ LET r == extract_sections_fallback(d, FreshSections(sections))
     IN  /\ sections' = r.sections
         /\ unrecognized_headers' = r.unrecognized
         /\ calls' = Append(calls, [arg |-> d, result |-> r])
  /\ UNCHANGED <<doc, pc, need_llm, classification, llm_sections, request,
                 saved, before, model_calls, callVars, batchVars, levelVars>>

\* the call on the document
FallbackOnce == calls = <<>> /\ FallbackCall(doc)

SpecFallback == InitFallback /\ [][FallbackOnce]_vars

(***************************************************************************)
(* The heuristic extractor called several times on one helper, on the      *)
(* document and on another one in any order                                *)
(***************************************************************************)
InitRepeat == doc \in RepeatDocs /\ Idle

NextRepeat == \E d \in {doc, OtherDocument} : FallbackCall(d)

SpecRepeat == InitRepeat /\ [][NextRepeat]_vars

(***************************************************************************)
(* The merge alone                                                         *)
(***************************************************************************)
InitMerge ==
  /\ doc = <<Blank>>
  /\ pc = "merge"
  /\ sections \in HeuristicMaps
  /\ llm_sections \in { Result(m) : m \in ModelMaps }
  /\ unrecognized_headers = <<>>
  /\ need_llm = TRUE
  /\ classification = NoResult
  /\ request = NoRequest("none")
  /\ saved = FALSE
  /\ before = EmptyMap
  /\ calls = <<>>
  /\ model_calls = <<>>
  /\ NoCall
  /\ NoBatch
  /\ NoLevel

MergeStep ==
  /\ pc = "merge"
  /\ before' = sections
  /\ sections' = MergeSections(sections, llm_sections.map)
  /\ pc' = "merged"
  /\ UNCHANGED <<doc, unrecognized_headers, need_llm, classification,
                 llm_sections, request, saved, calls, model_calls,
                 callVars, batchVars, levelVars>>

SpecMerge == InitMerge /\ [][MergeStep]_vars

(***************************************************************************)
(* The quality gate alone                                                  *)
(***************************************************************************)
InitGate ==
  /\ doc = <<Blank>>
  /\ pc = "quality"
  /\ sections \in GateMaps
  /\ unrecognized_headers = <<>>
  /\ need_llm = FALSE
  /\ classification = NoResult
  /\ llm_sections = NoResult
  /\ request = NoRequest("none")
  /\ saved = FALSE
  /\ before = EmptyMap
  /\ calls = <<>>
  /\ model_calls = <<>>
  /\ NoCall
  /\ NoBatch
  /\ NoLevel

SpecGate == InitGate /\ [][QualityCheck]_vars
(***************************************************************************)
(* The pipeline with the call of extract_sections step by step: the        *)
(* attempts of call_llm, the repair ladder, the merge of the answer        *)
(***************************************************************************)
\* the documents of this specification: none of the sections, a short
\* abstract, a section with an unrecognized heading after it, a paper with a
\* bare abstract, a paper with an unrecognized section
CallDocs ==
  { <<LongBody>>,
    <<HAbstract, Text(40)>>,
    <<HMethods, LongBody, HNumbered>>,
    Paper("Abstract", "none", "plain"),
    Paper("none", "none", "extra") }

InitCall ==
  /\ doc \in CallDocs
  /\ PipelineIdle
  /\ NoBatch
  /\ NoLevel
  /\ max_retries \in 0..MaxRetries
  /\ attempts = <<>>
  /\ response = NoneValue
  /\ stages = <<>>

\* the extraction bridge up to the call of extract_sections
RequestExtraction ==
  /\ pc = "extract"
  /\ before' = sections
  /\ LET targets == MissingSections(sections)
         shape == IF DOMAIN sections = {} THEN "full"
                  ELSE IF targets.missing # <<>> \/ targets.short # {} THEN "partial"
                  ELSE "none"
     IN  IF need_llm /\ shape # "none"
         THEN /\ need_llm' = need_llm
              /\ \E template_exists \in BOOLEAN :
                   IF ~template_exists
                   THEN /\ request' = NoRequest("no_template")
                        /\ pc' = "finish"
                        /\ UNCHANGED model_calls
                   ELSE /\ request' = IF shape = "full"
                                      THEN [shape |-> "full", missing |-> <<>>, short |-> {}]
                                      ELSE [shape |-> "partial",
                                            missing |-> targets.missing,
                                            short |-> targets.short]
                        /\ model_calls' = Append(model_calls, "extract")
                        /\ pc' = "call"
         ELSE /\ need_llm' = FALSE
              /\ pc' = "finish"
              /\ UNCHANGED <<request, model_calls>>
  /\ UNCHANGED <<doc, sections, unrecognized_headers, classification,
                 llm_sections, saved, calls, callVars, batchVars, levelVars>>

\* call_llm: one turn of `for attempt in range(max_retries)`
Attempt ==
  /\ pc = "call"
  /\ Len(attempts) < max_retries
  /\ \E o \in Raises \cup Returns :
       /\ attempts' = Append(attempts, o)
       /\ IF Raised(o)
          THEN IF Len(attempts) < max_retries - 1
               THEN UNCHANGED <<pc, response>>
               ELSE pc' = "received" /\ response' = NoneValue
          ELSE pc' = "received" /\ response' = o
  /\ UNCHANGED <<doc, sections, unrecognized_headers, need_llm, classification,
                 llm_sections, request, saved, before, calls, model_calls, max_retries, stages, batchVars, levelVars>>

\* call_llm with no attempt allowed: the loop is empty, `return None`
NoAttempt ==
  /\ pc = "call"
  /\ max_retries = 0
  /\ pc' = "received"
  /\ response' = NoneValue
  /\ UNCHANGED <<doc, sections, unrecognized_headers, need_llm, classification,
                 llm_sections, request, saved, before, calls, model_calls, max_retries, attempts, stages, batchVars, levelVars>>

\* extract_sections after call_llm: `if not response: return None`, else the
\* fences are stripped and the stray backslashes doubled
CheckResponse ==
  /\ pc = "received"
  /\ IF Falsy(response)
     THEN /\ llm_sections' = NoResult
          /\ pc' = "merge"
          /\ UNCHANGED <<response, stages>>
     ELSE /\ response' = TextValue(EscapeBackslashes(StripFences(response.text)))
          /\ stages' = <<"strip", "escape">>
          /\ pc' = "strict"
          /\ UNCHANGED llm_sections
  /\ UNCHANGED <<doc, sections, unrecognized_headers, need_llm, classification,
                 request, saved, before, calls, model_calls, max_retries,
                 attempts, batchVars, levelVars>>

\* sections = json.loads(response)
StrictParse ==
  /\ pc = "strict"
  /\ stages' = Append(stages, "strict")
  /\ LET e == StrictError(response.text)
     IN  IF e = ""
         THEN llm_sections' = Result(ValueOf(response.text)) /\ pc' = "merge"
         ELSE /\ pc' = IF e = "unterminated" THEN "repair" ELSE "lenient"
              /\ UNCHANGED llm_sections
  /\ UNCHANGED <<doc, sections, unrecognized_headers, need_llm, classification,
                 request, saved, before, calls, model_calls, max_retries,
                 attempts, response, batchVars, levelVars>>

\* the repair of a truncated answer: json.loads(fixed_response)
RepairTruncated ==
  /\ pc = "repair"
  /\ stages' = Append(stages, "repair")
  /\ LET fixed == CloseTruncated(response.text)
     IN  IF StrictError(fixed) = ""
         THEN llm_sections' = Result(ValueOf(fixed)) /\ pc' = "merge"
         ELSE pc' = "lenient" /\ UNCHANGED llm_sections
  /\ UNCHANGED <<doc, sections, unrecognized_headers, need_llm, classification,
                 request, saved, before, calls, model_calls, max_retries,
                 attempts, response, batchVars, levelVars>>

\* sections = ast.literal_eval(response), or `return None`
LenientParse ==
  /\ pc = "lenient"
  /\ stages' = Append(stages, "lenient")
  /\ llm_sections' = IF LenientParses(response.text)
                     THEN Result(ValueOf(response.text))
                     ELSE NoResult
  /\ pc' = "merge"
  /\ UNCHANGED <<doc, sections, unrecognized_headers, need_llm, classification,
                 request, saved, before, calls, model_calls, max_retries,
                 attempts, response, batchVars, levelVars>>

\* `if llm_sections:` and the merge
MergeAnswer ==
  /\ pc = "merge"
  /\ sections' = IF ~Truthy(llm_sections) THEN sections
                 ELSE IF DOMAIN sections = {} THEN llm_sections.map
                 ELSE MergeSections(sections, llm_sections.map)
  /\ pc' = "finish"
  /\ UNCHANGED <<doc, unrecognized_headers, need_llm, classification,
                 llm_sections, request, saved, before, calls, model_calls,
                 callVars, batchVars, levelVars>>

NextCall ==
  \/ ExtractFallback
  \/ QualityCheck
  \/ ClassificationBridge
  \/ RequestExtraction
  \/ Attempt
  \/ NoAttempt
  \/ CheckResponse
  \/ StrictParse
  \/ RepairTruncated
  \/ LenientParse
  \/ MergeAnswer
  \/ Finish

SpecCall == InitCall /\ [][NextCall]_vars

(***************************************************************************)
(* The batch: start_processing, the worker thread (process_pdfs or         *)
(* extract_from_raw), stop_processing on the interface thread.  The worker *)
(* is at "top" (the test at the head of the loop), "convert" (run_mineru), *)
(* "extract" (extract_and_organize before its model calls), "model" (a     *)
(* model call in flight), "count" (the document is about to be counted),   *)
(* "complete" (after the loop) or "idle" (no thread).                      *)
(***************************************************************************)
Started(i) == [ev |-> "start", i |-> i, at |-> "top"]
Ended(i, ok) == [ev |-> IF ok THEN "success" ELSE "failed", i |-> i, at |-> "top"]
StopRequest(i, w) == [ev |-> "stop", i |-> i, at |-> w]

InitBatch == doc = <<>> /\ Idle

\* start_processing: the flag is set, the counters are reset, the thread starts
StartProcessing ==
  /\ worker = "idle"
  /\ \E n \in 1..MaxPdfs, m \in {"full", "extract"} :
       total_pdfs' = n /\ mode' = m
  /\ is_processing' = TRUE
  /\ current_pdf_index' = 0
  /\ success_count' = 0
  /\ failed_count' = 0
  /\ journal' = <<>>
  /\ worker' = "top"
  /\ UNCHANGED <<pipelineVars, callVars, levelVars>>

\* stop_processing, on the interface thread, at any moment of the batch
StopProcessing ==
  /\ worker # "idle"
  /\ is_processing
  /\ is_processing' = FALSE
  /\ journal' = Append(journal, StopRequest(current_pdf_index, worker))
  /\ UNCHANGED <<worker, total_pdfs, mode, current_pdf_index, success_count,
                 failed_count, pipelineVars, callVars, levelVars>>

\* LeavesLoop with the flag looked at wherever the worker is
LeavesAnywhere(w, processing) == ~processing

\* `if not self.is_processing: break`: the one place the worker reads the flag
LeavesLoop(w, processing) == w = "top" /\ ~processing

\* the loop is left: the flag was cleared, or every document was taken
Break ==
  /\ worker \notin {"idle", "complete"}
  /\ \/ LeavesLoop(worker, is_processing)
     \/ worker = "top" /\ current_pdf_index = total_pdfs
  /\ worker' = "complete"
  /\ UNCHANGED <<is_processing, total_pdfs, mode, current_pdf_index, success_count,
                 failed_count, journal, pipelineVars, callVars, levelVars>>

\* the next document is taken: self.current_pdf_index = i + 1
NextDocument ==
  /\ worker = "top"
  /\ current_pdf_index < total_pdfs
  /\ ~LeavesLoop(worker, is_processing)
  /\ current_pdf_index' = current_pdf_index + 1
  /\ journal' = Append(journal, Started(current_pdf_index + 1))
  /\ worker' = IF mode = "full" THEN "convert" ELSE "extract"
  /\ UNCHANGED <<is_processing, total_pdfs, mode, success_count, failed_count,
                 pipelineVars, callVars, levelVars>>

\* failed_count left as it was
SameCount(n) == n

\* self.failed_count += 1, self.success_count += 1
Incremented(n) == n + 1

\* success = self.run_mineru(pdf_file): True, or False after any exception
RunMineru ==
  /\ worker = "convert"
  /\ ~LeavesLoop(worker, is_processing)
  /\ \E success \in BOOLEAN :
       IF success
       THEN worker' = "extract" /\ UNCHANGED <<failed_count, journal>>
       ELSE /\ failed_count' = Incremented(failed_count)
            /\ journal' = Append(journal, Ended(current_pdf_index, FALSE))
            /\ worker' = "top"
  /\ UNCHANGED <<is_processing, total_pdfs, mode, current_pdf_index, success_count,
                 pipelineVars, callVars, levelVars>>

\* extract_and_organize: it reaches a model call, or it returns without one
\* (no output directory, sections not asked for, an exception it swallows)
ExtractAndOrganize ==
  /\ worker = "extract"
  /\ ~LeavesLoop(worker, is_processing)
  /\ \E calls_model \in BOOLEAN :
       worker' = IF calls_model THEN "model" ELSE "count"
  /\ UNCHANGED <<is_processing, total_pdfs, mode, current_pdf_index, success_count,
                 failed_count, journal, pipelineVars, callVars, levelVars>>

\* the model call in flight returns or fails; another may follow
ModelCallReturns ==
  /\ worker = "model"
  /\ ~LeavesLoop(worker, is_processing)
  /\ \E more \in BOOLEAN :
       worker' = IF more THEN "extract" ELSE "count"
  /\ UNCHANGED <<is_processing, total_pdfs, mode, current_pdf_index, success_count,
                 failed_count, journal, pipelineVars, callVars, levelVars>>

\* extract_and_organize has returned: self.success_count += 1
CountSuccess ==
  /\ worker = "count"
  /\ ~LeavesLoop(worker, is_processing)
  /\ success_count' = Incremented(success_count)
  /\ journal' = Append(journal, Ended(current_pdf_index, TRUE))
  /\ worker' = "top"
  /\ UNCHANGED <<is_processing, total_pdfs, mode, current_pdf_index, failed_count,
                 pipelineVars, callVars, levelVars>>

\* processing_complete
ProcessingComplete ==
  /\ worker = "complete"
  /\ is_processing' = FALSE
  /\ worker' = "idle"
  /\ UNCHANGED <<total_pdfs, mode, current_pdf_index, success_count, failed_count,
                 journal, pipelineVars, callVars, levelVars>>

NextBatch ==
  \/ StartProcessing
  \/ StopProcessing
  \/ Break
  \/ NextDocument
  \/ RunMineru
  \/ ExtractAndOrganize
  \/ ModelCallReturns
  \/ CountSuccess
  \/ ProcessingComplete

SpecBatch == InitBatch /\ [][NextBatch]_vars

(***************************************************************************)
(* get_heading_level on the characters of a line.  A character is "#", a   *)
(* blank " ", a digit "1", a dot "." or a letter "x"; a line is a marker   *)
(* of some "#" and then characters, with no blank at either end (the       *)
(* function gets line_stripped).                                           *)
(***************************************************************************)
Chars == {" ", "1", ".", "x"}

RECURSIVE Marker(_)
Marker(n) == IF n = 0 THEN <<>> ELSE <<"#">> \o Marker(n - 1)

LevelLines ==
  { s \in { Marker(n) \o t :
              n \in 0..MaxMarker,
              t \in UNION { [1..m -> Chars] : m \in 0..MaxChars } } :
      s # <<>> /\ s[1] # " " /\ s[Len(s)] # " " }

At(s, i) == IF i \in DOMAIN s THEN s[i] ELSE "end"

\* \d+ from position i: the position after the digits
RECURSIVE AfterDigits(_, _)
AfterDigits(s, i) == IF At(s, i) = "1" THEN AfterDigits(s, i + 1) ELSE i

\* (?:[\.]\d+)*[\.](?:\s|[A-Za-z]) from position j, after k dots of the
\* numbering: the level, or 0 when the pattern does not match
RECURSIVE NumberingTail(_, _, _)
NumberingTail(s, j, k) ==
  IF At(s, j) # "." THEN 0
  ELSE IF At(s, j + 1) = "1" THEN NumberingTail(s, AfterDigits(s, j + 1), k + 1)
  ELSE IF At(s, j + 1) \in {" ", "x"} THEN k + 1
  ELSE 0

\* re.search(...): the first position from i on at which the pattern matches
RECURSIVE numbering_match(_, _)
numbering_match(s, i) ==
  IF i > Len(s) THEN 0
  ELSE IF At(s, i) = "1" /\ NumberingTail(s, AfterDigits(s, i), 0) # 0
       THEN NumberingTail(s, AfterDigits(s, i), 0)
  ELSE numbering_match(s, i + 1)

\* re.match(r'^(#+)\s', line): the length of the marker, 0 without match
RECURSIVE MarkerLen(_, _)
MarkerLen(s, i) == IF At(s, i) = "#" THEN MarkerLen(s, i + 1) ELSE i - 1

header_match(s) ==
  IF MarkerLen(s, 1) >= 1 /\ At(s, MarkerLen(s, 1) + 1) = " "
  THEN MarkerLen(s, 1) ELSE 0

\* HeadingLevelOf with the marker looked at before the numbering
HeadingLevelMarkerFirst(s) ==
  IF header_match(s) # 0 THEN header_match(s) ELSE numbering_match(s, 1)

\* get_heading_level(line)
HeadingLevelOf(s) ==
  IF numbering_match(s, 1) # 0 THEN numbering_match(s, 1) ELSE header_match(s)

InitLevel ==
  /\ doc = <<>>
  /\ PipelineIdle /\ NoCall /\ NoBatch
  /\ line \in LevelLines
  /\ levels = <<>>
  /\ section_level = 0

\* section_level = get_heading_level(line_stripped), 1 when that is 0
GetHeadingLevel ==
  /\ levels = <<>>
  /\ levels' = <<HeadingLevelOf(line)>>
  /\ section_level' = IF HeadingLevelOf(line) = 0 THEN 1 ELSE HeadingLevelOf(line)
  /\ UNCHANGED <<line, pipelineVars, callVars, batchVars>>

SpecLevel == InitLevel /\ [][GetHeadingLevel]_vars


(***************************************************************************)
(* Properties                                                              *)
(***************************************************************************)
\* the lines after position s of document d that match an exclusion pattern
ExclusionsAfter(d, s) == { i \in DOMAIN d : i > s /\ is_exclude_section(d[i]) }

Min(S) == CHOOSE i \in S : \A j \in S : i <= j

\* a marked heading that closes the section `name` of level `level`: a heading of
\* that level or above that is another section's, or a numbered heading of the
\* same level that is no section's
HeadingCloses(l, name, level) ==
  /\ l.hashes >= 1
  /\ get_heading_level(l) <= level
  /\ \/ \E other \in CriticalSections \ {name} :
          get_section_name_for_header(l) = other
     \/ /\ get_heading_level(l) = level
        /\ get_section_name_for_header(l) = ""
        /\ l.prefix = "digits" /\ l.depth = 1

\* the sections found by one call, each with its start, its level and its end
\* (exclusive) in the document of the call
Found(c) ==
  { [name |-> name,
     start |-> SectionStart(c.arg, name),
     level |-> SectionLevel(c.arg[SectionStart(c.arg, name)]),
     end |-> SectionStart(c.arg, name) + Len(c.result.sections[name]),
     content |-> c.result.sections[name]] :
      name \in DOMAIN c.result.sections }

\* C1: in every section the heuristic extractor returns, the end is at most the
\* first line after the start that matches an exclusion pattern, it is that
\* line when no heading closes the section before it, and no line of the
\* content matches an exclusion pattern.
C1_ExclusionEndsSection ==
  \A k \in DOMAIN calls : \A f \in Found(calls[k]) :
    LET d == calls[k].arg
        excl == ExclusionsAfter(d, f.start)
    IN  /\ f.content = SubSeq(d, f.start, f.end - 1)
        /\ \A i \in DOMAIN f.content : ~is_exclude_section(f.content[i])
        /\ excl # {} =>
             /\ f.end <= Min(excl)
             /\ (\A i \in (f.start + 1)..(Min(excl) - 1) :
                   ~HeadingCloses(d[i], f.name, f.level))
                => f.end = Min(excl)

\* C1 witness: a section of level 1 ended, after a paragraph, by an exclusion
\* line that has no marker
C1_Witness ==
  \E k \in DOMAIN calls : \E f \in Found(calls[k]) :
    LET d == calls[k].arg
    IN  /\ Len(d) = 3
        /\ f.start = 1 /\ f.end = 3 /\ f.level = 1
        /\ d[2] = LongBody
        /\ d[3] = PReferences

FirstClosing(d, f) ==
  LET closing == { i \in DOMAIN d :
                     /\ i > f.start
                     /\ \/ is_exclude_section(d[i])
                        \/ HeadingCloses(d[i], f.name, f.level) }
  IN  IF closing = {} THEN 0 ELSE Min(closing)

\* C9: when the first line that closes a section is a marked heading of the
\* section's level or above that matches another canonical section, the
\* section ends exactly at that line; "# 1. Introduction" then ends before
\* "# 2. Methods" and "# Abstract" before "# 1. Introduction".
C9_EndsAtNextCanonical ==
  \A k \in DOMAIN calls :
    LET d == calls[k].arg
        m == calls[k].result.sections
    IN  /\ \A f \in Found(calls[k]) :
             LET t == FirstClosing(d, f)
             IN  (/\ t # 0
                  /\ ~is_exclude_section(d[t])
                  /\ get_section_name_for_header(d[t]) \notin {"", f.name})
                 => f.end = t /\ f.content = SubSeq(d, f.start, t - 1)
        /\ d = <<HIntroduction, LongBody, HMethods>>
             => m["Introduction"] = <<HIntroduction, LongBody>>
        /\ d = <<HAbstract, LongBody, HIntroduction>>
             => m["Abstract"] = <<HAbstract, LongBody>>

\* C9 witness: a section of level 2 closed by the level-1 heading of another
\* section, after a line of content
C9_Witness ==
  \E k \in DOMAIN calls : \E f \in Found(calls[k]) :
    LET d == calls[k].arg
    IN  /\ f.level = 2 /\ f.start = 1 /\ f.end = 3
        /\ Len(d) = 3
        /\ ~is_exclude_section(d[3])
        /\ get_heading_level(d[3]) = 1
        /\ get_section_name_for_header(d[3]) \notin {"", f.name}

\* C6: the merge keeps every key of the section map, and leaves unchanged every
\* entry whose stripped content has at least 100 characters.
C6_MergeMonotonic ==
  pc = "merged" =>
    /\ DOMAIN before \subseteq DOMAIN sections
    /\ \A name \in DOMAIN before :
         StrippedLen(before[name]) >= 100 => sections[name] = before[name]

\* C6 witness: an entry of at least 100 characters for which the model gave a
\* longer content, and a short entry the model did not name
C6_Witness ==
  /\ pc = "merged"
  /\ \E name \in DOMAIN before \cap DOMAIN llm_sections.map :
       /\ StrippedLen(before[name]) >= 100
       /\ StrippedLen(llm_sections.map[name]) > StrippedLen(before[name])
  /\ \E name \in DOMAIN before \ DOMAIN llm_sections.map :
       StrippedLen(before[name]) < 100

\* C7: in the merge a name of the model's map that the section map lacks is
\* inserted, and one it has is replaced by the model's content exactly when
\* the heuristic content has fewer than 100 characters and the model's content
\* at least 100.
C7_ReplaceAtLeast100 ==
  pc = "merged" =>
    \A name \in DOMAIN llm_sections.map :
      /\ name \in DOMAIN sections
      /\ sections[name] =
           IF name \notin DOMAIN before THEN llm_sections.map[name]
           ELSE IF /\ StrippedLen(before[name]) < 100
                   /\ StrippedLen(llm_sections.map[name]) >= 100
                THEN llm_sections.map[name]
                ELSE before[name]

\* C10: the quality gate raises need_llm exactly when the map is empty, lacks one
\* of the five canonical names, has an entry of fewer than 100 characters once
\* stripped, or has fewer than 2 entries; more than 8 entries alone do not raise it.
C10_QualityGate ==
  pc = "classify" =>
    need_llm = ( \/ DOMAIN sections = {}
                 \/ \E name \in {"Abstract", "Introduction", "Methods",
                                 "Results & Discussion", "Conclusion"} :
                      name \notin DOMAIN sections
                 \/ \E name \in DOMAIN sections : StrippedLen(sections[name]) < 100
                 \/ Cardinality(DOMAIN sections) < 2 )

\* C10 witness: a map of more than 8 entries, one of them of exactly 100
\* characters, that does not raise the flag
C10_Witness ==
  /\ pc = "classify"
  /\ Cardinality(DOMAIN sections) > 8
  /\ \E name \in DOMAIN sections : StrippedLen(sections[name]) = 100
  /\ ~need_llm

\* a line that is a heading of the section `name` of the document: one of its
\* patterns matches it, or the model classified it as `name`
IsHeadingOf(l, name) ==
  /\ \E i \in DOMAIN doc : doc[i] = l
  /\ \/ MatchesSection(name, l)
     \/ /\ Truthy(classification)
        /\ l \in DOMAIN classification.map
        /\ classification.map[l] = name

\* C2: for a document with a Results heading and, after it, a Discussion
\* heading, the final section map has the key "Results & Discussion", has
\* neither the key "Results" nor the key "Discussion", and in the content the
\* Results heading comes before the Discussion heading.
C2_ResultsDiscussionMerged ==
  (/\ pc = "done"
   /\ \E i, j \in DOMAIN doc : i < j /\ doc[i] = HResults /\ doc[j] = HDiscussion)
  => /\ "Results & Discussion" \in DOMAIN sections
     /\ "Results" \notin DOMAIN sections
     /\ "Discussion" \notin DOMAIN sections
     /\ LET c == sections["Results & Discussion"]
        IN  \A i, j \in DOMAIN c : c[i] = HDiscussion /\ c[j] = HResults => j < i

\* C3: at the end every key of the section map is one of the five canonical names.
C3_OnlyCanonicalKeys ==
  pc = "done" => DOMAIN sections \subseteq CriticalSections

\* C4: in every state the content of every entry of the section map begins with
\* a heading line of that section taken from the document.
C4_ContentBeginsWithHeading ==
  \A name \in DOMAIN sections :
    /\ sections[name] # <<>>
    /\ IsHeadingOf(sections[name][1], name)

\* C8 as stated: from one step of the pipeline to the next no key of the section
\* map is lost and the length of no entry decreases.
C8_LengthNeverDecreases ==
  /\ DOMAIN before \subseteq DOMAIN sections
  /\ \A name \in DOMAIN before :
       RawLen(sections[name]) >= RawLen(before[name])

\* C8 amended: from one step of the pipeline to the next no key of the section
\* map is lost and the length of no entry, taken after its leading and
\* trailing whitespace is stripped, decreases.
C8_NeverShrinks ==
  /\ DOMAIN before \subseteq DOMAIN sections
  /\ \A name \in DOMAIN before :
       StrippedLen(sections[name]) >= StrippedLen(before[name])

\* C8 witness: the extraction bridge has replaced a short entry and added one,
\* after the classification bridge had folded a header into a canonical section
C8_Witness ==
  /\ pc = "finish"
  /\ \E name \in DOMAIN before :
       /\ sections[name] # before[name]
       /\ StrippedLen(sections[name]) > StrippedLen(before[name])
  /\ DOMAIN sections # DOMAIN before
  /\ Truthy(classification)
  /\ \E name \in DOMAIN classification.map :
       classification.map[name] \in CriticalSections

\* the elements of a sequence
Range(s) == { s[i] : i \in DOMAIN s }

\* what the heuristic extractor returns for the document
HeuristicResult == extract_sections_fallback(doc, EmptyMap)

\* C11: for a document whose heuristic map is empty the classification bridge
\* never calls the model, and the extraction bridge makes the full request
\* (no target list), never the partial one.
C11_EmptyMapFullRequest ==
  (DOMAIN HeuristicResult.sections = {} /\ pc \in {"extract", "finish", "done"})
  => /\ "classify" \notin Range(model_calls)
     /\ classification = NoResult
     /\ pc \in {"finish", "done"} =>
          /\ request.shape \in {"full", "no_template"}
          /\ request.missing = <<>> /\ request.short = {}
          /\ request.shape = "full" <=> model_calls = <<"extract">>

\* C11 witness: a document with an unrecognized heading and no section, for
\* which the full request was made and answered
C11_Witness ==
  /\ pc = "done"
  /\ DOMAIN HeuristicResult.sections = {}
  /\ HeuristicResult.unrecognized # <<>>
  /\ request.shape = "full"
  /\ Truthy(llm_sections)

Max(S) == CHOOSE i \in S : \A j \in S : j <= i

\* the positions in the document of the headers the model classified as T
PositionsOf(T) ==
  { HeaderPosition(doc, h) :
      h \in { x \in DOMAIN classification.map : classification.map[x] = T } }

\* the content of the header at position p alone, up to its own end
OwnContent(p) == SubSeq(doc, p, BridgeEnd(doc, doc[p], p + 1) - 1)

\* the contents of the headers at the positions P, one after the other in the
\* order of the document
RECURSIVE ConcatOwn(_)
ConcatOwn(P) ==
  IF P = {} THEN <<>> ELSE OwnContent(Min(P)) \o ConcatOwn(P \ {Min(P)})

\* C12 as stated: after the classification bridge the entry of a category the
\* model named holds the contents of the headers of that category, each up to
\* its own end and nothing else, in the order of the document; it is placed
\* before the content the category already had, or becomes the entry.
C12_ClassifiedConcatenation ==
  (pc = "extract" /\ Truthy(classification)) =>
    \A T \in { classification.map[h] : h \in DOMAIN classification.map } :
      /\ T \in DOMAIN sections
      /\ sections[T] = IF T \in DOMAIN before
                       THEN ConcatOwn(PositionsOf(T)) \o <<Blank>> \o before[T]
                       ELSE ConcatOwn(PositionsOf(T))

\* C12 amended: after the classification bridge the entry of a category the
\* model named holds one span of the document, from the first header of that
\* category to the end found after the last one (whatever lies between them
\* included); it is placed before the content the category already had,
\* separated by an empty line, or becomes the entry.
C12_ClassifiedSpan ==
  (pc = "extract" /\ Truthy(classification)) =>
    \A T \in { classification.map[h] : h \in DOMAIN classification.map } :
      LET first == Min(PositionsOf(T))
          last == Max(PositionsOf(T))
      IN  /\ T \in DOMAIN sections
          /\ \E e \in (last + 1)..(Len(doc) + 1) :
               /\ \A i \in (last + 1)..(e - 1) : ~BridgeEnds(doc[i], doc[first])
               /\ e <= Len(doc) => BridgeEnds(doc[e], doc[first])
               /\ sections[T] =
                    IF T \in DOMAIN before
                    THEN SubSeq(doc, first, e - 1) \o <<Blank>> \o before[T]
                    ELSE SubSeq(doc, first, e - 1)

\* C12 witness: two headers classified into a category the map already had,
\* with a header of another category between them, and a category it had not
C12_Witness ==
  /\ pc = "extract"
  /\ Truthy(classification)
  /\ \E T \in DOMAIN before :
       /\ Cardinality(PositionsOf(T)) = 2
       /\ \E h \in DOMAIN classification.map :
            /\ classification.map[h] # T
            /\ HeaderPosition(doc, h) > Min(PositionsOf(T))
            /\ HeaderPosition(doc, h) < Max(PositionsOf(T))
  /\ \E h \in DOMAIN classification.map :
       classification.map[h] \notin DOMAIN before

\* C13: call_llm makes at most max_retries attempts, every attempt before the
\* last one raised, and it returns what the first attempt that does not raise
\* returns, or None once max_retries attempts have raised; when the
\* classification bridge or the extraction bridge gets no result the section
\* map is what it was before that bridge, the pipeline goes on, and the
\* sections there are get saved.
C13_RetryThenNone ==
  /\ Len(attempts) <= max_retries
  /\ \A i \in 1..(Len(attempts) - 1) : attempts[i] \in Raises
  /\ pc = "call" => \A i \in 1..Len(attempts) : attempts[i] \in Raises
  /\ pc = "received" =>
       IF attempts # <<>> /\ attempts[Len(attempts)] \notin Raises
       THEN response = attempts[Len(attempts)]
       ELSE response = NoneValue /\ Len(attempts) = max_retries
  /\ (pc = "extract" /\ ~Truthy(classification)) => sections = before
  /\ (pc \in {"finish", "done"} /\ ~Truthy(llm_sections)) => sections = before
  /\ (pc = "done" /\ ~Truthy(llm_sections)) => saved = (DOMAIN before # {})

\* C13 witness: the classification call gave nothing, the three attempts of
\* the extraction call raised, and the heuristic sections were saved
C13_Witness ==
  /\ pc = "done"
  /\ model_calls = <<"classify", "extract">>
  /\ ~Truthy(classification)
  /\ max_retries = DefaultMaxRetries
  /\ Len(attempts) = DefaultMaxRetries
  /\ \A i \in 1..Len(attempts) : attempts[i] \in Raises
  /\ llm_sections = NoResult
  /\ DOMAIN sections # {}
  /\ saved

\* C14 as stated: an attempt that returns no text or an empty string is
\* handled like one that raised: another attempt follows unless the attempt
\* limit is reached.
C14_EmptyIsRetried ==
  (pc = "received" /\ attempts # <<>> /\ Falsy(attempts[Len(attempts)])) =>
    Len(attempts) = max_retries

\* the stages the repair ladder has to go through for the text t the model
\* returned, told from the text as it was returned
LadderFor(t) ==
  LET head == <<"strip", "escape", "strict">>
  IN  IF t.stray # "u" /\ t.body \in {"object", "empty_object"} THEN head
      ELSE IF t.stray # "u" /\ t.body = "open_string" THEN Append(head, "repair")
      ELSE IF t.stray # "u" /\ t.body \in {"open_quote", "open_nested"}
           THEN head \o <<"repair", "lenient">>
      ELSE Append(head, "lenient")

\* no stage of the ladder can parse the text t
NoStageParses(t) ==
  \/ t.stray = "u"
  \/ t.body \in {"open_quote", "open_nested", "garbage"}

\* C15: the repair ladder goes through its stages in one order and stops at
\* the first that parses: fences stripped, stray backslashes escaped, strict
\* parse; the repair of a truncated answer only after an unterminated-string
\* error of the strict parse; the lenient parse only after the repair failed
\* or the strict parse failed in another way; when no stage parses the
\* result is None and the caller's map stays as it was.
C15_RepairLadder ==
  stages # <<>> =>
    LET t == attempts[Len(attempts)].text
        ladder == LadderFor(t)
    IN  /\ Len(stages) <= Len(ladder)
        /\ stages = SubSeq(ladder, 1, Len(stages))
        /\ pc \in {"merge", "finish", "done"} => stages = ladder
        /\ pc = "strict" <=> Len(stages) = 2
        /\ (pc \in {"merge", "finish", "done"} /\ NoStageParses(t)) =>
             llm_sections = NoResult
        /\ (pc \in {"merge", "finish", "done"} /\ ~NoStageParses(t)) =>
             llm_sections # NoResult
        /\ (pc \in {"finish", "done"} /\ NoStageParses(t)) => sections = before

\* C15 witness: a fenced answer with a stray backslash and an unterminated
\* string went through every stage, none parsed, and the map is as it was
C15_Witness ==
  /\ pc = "done"
  /\ stages = <<"strip", "escape", "strict", "repair", "lenient">>
  /\ attempts[Len(attempts)].text.open = "json"
  /\ attempts[Len(attempts)].text.stray = "plain"
  /\ llm_sections = NoResult
  /\ DOMAIN before # {}
  /\ sections = before

\* C16: when the prompt template is missing the extraction bridge calls no
\* model and leaves the section map as it was, and the extraction ends as
\* usual: the sections of the heuristic pass and of the classification are
\* saved.
C16_TemplateMissing ==
  request.shape = "no_template" =>
    /\ "extract" \notin Range(model_calls)
    /\ llm_sections = NoResult
    /\ pc \in {"finish", "done"}
    /\ sections = before
    /\ pc = "done" => saved = (DOMAIN sections # {})

\* C16 witness: a document ended without its template, after a classification
\* that added to the map, and its sections were saved
C16_Witness ==
  /\ pc = "done"
  /\ request.shape = "no_template"
  /\ Truthy(classification)
  /\ model_calls = <<"classify">>
  /\ \E name \in CriticalSections : name \notin DOMAIN sections
  /\ saved

\* the heuristic map passes every quality check: the five sections are
\* there and none is shorter than the minimum
PassesQuality(m) ==
  \A name \in CriticalSections :
    name \in DOMAIN m /\ StrippedLen(m[name]) >= MinContentLen

\* C20 as stated: for a document whose heuristic map passes every quality
\* check no call of the model is made, whatever headings went unrecognized.
C20_NoModelCall ==
  PassesQuality(HeuristicResult.sections) => model_calls = <<>>

\* C20 amended: for a document whose heuristic map passes every quality
\* check the extraction call is never made, and the classification call is
\* made exactly when the document has unrecognized level-1 headings.
C20_ClassifyOnly ==
  PassesQuality(HeuristicResult.sections) =>
    /\ "extract" \notin Range(model_calls)
    /\ request.shape = "none"
    /\ pc \in {"extract", "finish", "done"} =>
         model_calls = IF HeuristicResult.unrecognized # <<>>
                       THEN <<"classify">> ELSE <<>>

\* C20 witness: a document with the five sections long enough and an
\* unrecognized heading ended after one classification call that added to
\* the map
C20_Witness ==
  /\ pc = "done"
  /\ PassesQuality(HeuristicResult.sections)
  /\ HeuristicResult.unrecognized # <<>>
  /\ model_calls = <<"classify">>
  /\ Truthy(classification)
  /\ sections # HeuristicResult.sections

\* C19 as stated: the pattern lists of the five sections exclude one another:
\* no line matches the patterns of two sections, so no line is the start
\* line of two sections of the map the heuristic pass returns.
C19_PatternsExclusive ==
  calls # <<>> =>
    \A a \in CriticalSections : \A b \in CriticalSections \ {a} :
      /\ \A i \in DOMAIN doc :
           ~(MatchesSection(a, doc[i]) /\ MatchesSection(b, doc[i]))
      /\ SectionStart(doc, a) # 0 => SectionStart(doc, a) # SectionStart(doc, b)

\* the places of the journal that hold an event of the kind e
Events(e) == { k \in DOMAIN journal : journal[k].ev = e }

\* the worker is inside the processing of a document
InDocument == worker \in {"convert", "extract", "model", "count"}

\* C17: a failure on one document does not end the batch: unless a stop is
\* requested the next document is started after it and every document of the
\* batch is processed; every document started is counted once, as a success
\* or as a failure, so at the end success_count + failed_count is the number
\* of documents started.
C17_BatchSurvivesFailures ==
  /\ current_pdf_index = Cardinality(Events("start"))
  /\ success_count = Cardinality(Events("success"))
  /\ failed_count = Cardinality(Events("failed"))
  /\ success_count + failed_count =
       IF InDocument THEN current_pdf_index - 1 ELSE current_pdf_index
  /\ \A k \in Events("failed") :
       /\ (k < Len(journal) /\ journal[k + 1].ev # "stop") =>
            journal[k + 1] = Started(journal[k].i + 1)
       /\ (k = Len(journal) /\ journal[k].i < total_pdfs /\ Events("stop") = {}) =>
            worker = "top"
  /\ (worker \in {"complete", "idle"} /\ Events("stop") = {}) =>
       /\ current_pdf_index = total_pdfs
       /\ success_count + failed_count = total_pdfs

\* C17 witness: a batch of three ended without a stop request; its first
\* document failed and the two after it succeeded
C17_Witness ==
  /\ worker = "idle"
  /\ total_pdfs = 3
  /\ journal = <<Started(1), Ended(1, FALSE), Started(2), Ended(2, TRUE),
                 Started(3), Ended(3, TRUE)>>
  /\ success_count = 2
  /\ failed_count = 1

\* C18: a stop requested while document i is processed, a model call in
\* flight included, does not interrupt it: the document runs to its end and
\* is counted; the worker sees the request at the head of the loop only and
\* starts no document after it.
C18_CooperativeStop ==
  /\ \A k \in Events("stop") :
       /\ \A j \in Events("start") : j < k
       /\ ~is_processing
       /\ (journal[k].at \in {"convert", "extract", "model", "count"}
           /\ ~InDocument) =>
            \E j \in Events("success") \cup Events("failed") :
              j > k /\ journal[j].i = journal[k].i
  /\ ~InDocument =>
       \A k \in Events("start") :
         \E j \in Events("success") \cup Events("failed") :
           j > k /\ journal[j].i = journal[k].i
  /\ InDocument => journal[Max(Events("start"))] = Started(current_pdf_index)

\* C18 witness: the stop came during the model call of the first of three
\* documents; that document was finished and counted, and no other started
C18_Witness ==
  /\ worker = "idle"
  /\ total_pdfs = 3
  /\ journal = <<Started(1), StopRequest(1, "model"), Ended(1, TRUE)>>
  /\ current_pdf_index = 1
  /\ success_count = 1

(***************************************************************************)
(* Properties of the boundary scan, the level, the unrecognized headings,  *)
(* the extraction request                                                  *)
(***************************************************************************)
\* a marked heading with one number after the marker: ^#+\s*\d+[\.]?\s
NumberedHeading(l) == l.hashes >= 1 /\ l.prefix = "digits" /\ l.depth = 1

\* C21 as stated: a line after the start of a section that is no exclusion,
\* does not match a different canonical section and is a numbered heading of
\* the section's level ends the section: the end is at that line or before,
\* also when the heading matches the section being scanned.
C21_NumberedSiblingEnds ==
  \A k \in DOMAIN calls : \A f \in Found(calls[k]) :
    LET d == calls[k].arg
    IN  \A i \in DOMAIN d :
          (/\ i > f.start
           /\ ~is_exclude_section(d[i])
           /\ get_section_name_for_header(d[i]) \in {"", f.name}
           /\ NumberedHeading(d[i])
           /\ get_heading_level(d[i]) = f.level)
          => f.end <= i

\* C21 amended: such a heading ends the section when it matches no canonical
\* section (the end is at that line, or before it when an earlier line ended
\* the section); a heading whose first matching canonical section is the one
\* being scanned, and that is no exclusion, never is the end of the section.
C21_UnclassifiedSiblingEnds ==
  \A k \in DOMAIN calls : \A f \in Found(calls[k]) :
    LET d == calls[k].arg
    IN  \A i \in DOMAIN d :
          /\ (/\ i > f.start
              /\ ~is_exclude_section(d[i])
              /\ get_section_name_for_header(d[i]) = ""
              /\ NumberedHeading(d[i])
              /\ get_heading_level(d[i]) = f.level)
             => /\ f.end <= i
                /\ (\A j \in (f.start + 1)..(i - 1) :
                      ~is_exclude_section(d[j])
                      /\ ~HeadingCloses(d[j], f.name, f.level))
                   => f.end = i
          /\ (/\ i > f.start
              /\ ~is_exclude_section(d[i])
              /\ get_section_name_for_header(d[i]) = f.name)
             => f.end # i

\* C21 witness: a Methods section that runs over a second numbered Methods
\* heading and ends at the numbered heading of no section after it
C21_Witness ==
  \E k \in DOMAIN calls :
    /\ calls[k].arg = <<HMethods, HMethods, HNumbered>>
    /\ calls[k].result.sections["Methods"] = <<HMethods, HMethods>>

\* a line that the boundary scan passes over whatever the section: one
\* without marker, a heading deeper than the section, or a heading of the
\* section's level or above with no number after the marker and no canonical
\* match
PassedOver(l, level) ==
  \/ l.hashes = 0
  \/ l.hashes >= 1 /\ get_heading_level(l) > level
  \/ /\ l.hashes >= 1
     /\ get_heading_level(l) <= level
     /\ l.prefix = "none"
     /\ get_section_name_for_header(l) = ""

\* C22: a line that is no exclusion match and has no marker, or is a heading
\* deeper than the section, or is a heading of the section's level or above
\* without numbering and without canonical match, never is the end of the
\* section; when every line after the start is such a line, the content runs
\* to the last line of the document.
C22_SubHeadingsContinue ==
  \A k \in DOMAIN calls : \A f \in Found(calls[k]) :
    LET d == calls[k].arg
    IN  /\ f.end <= Len(d) + 1
        /\ \A i \in (f.start + 1)..Len(d) :
             (~is_exclude_section(d[i]) /\ PassedOver(d[i], f.level)) => f.end # i
        /\ (\A i \in (f.start + 1)..Len(d) :
              ~is_exclude_section(d[i]) /\ PassedOver(d[i], f.level))
           => /\ f.end = Len(d) + 1
              /\ f.content = SubSeq(d, f.start, Len(d))

\* C22 witness: a level-1 section followed by a deeper numbered heading and a
\* level-1 heading without number and without canonical match runs to the
\* last line
C22_Witness ==
  \E k \in DOMAIN calls : \E f \in Found(calls[k]) :
    /\ calls[k].arg = <<HMethods, HSubNumbered, HOther>>
    /\ f.name = "Methods"
    /\ f.content = <<HMethods, HSubNumbered, HOther>>

\* the lines of document d that match a pattern of the section `name`
Matches(d, name) == { i \in DOMAIN d : MatchesSection(name, d[i]) }

\* C23: each canonical section starts at the first line of the document that
\* matches one of its patterns, whatever matches come later; a canonical
\* section that no line matches is absent from the map.
C23_FirstMatchStarts ==
  \A k \in DOMAIN calls : \A name \in CriticalSections :
    LET d == calls[k].arg
        m == calls[k].result.sections
        hits == Matches(d, name)
    IN  IF hits = {} THEN name \notin DOMAIN m
        ELSE /\ name \in DOMAIN m
             /\ m[name] # <<>>
             /\ Min(hits) + Len(m[name]) - 1 <= Len(d)
             /\ m[name] = SubSeq(d, Min(hits), Min(hits) + Len(m[name]) - 1)

\* C23 witness: two lines match the Abstract patterns and the section starts
\* at the first, the second being part of its content; Methods is absent
C23_Witness ==
  \E k \in DOMAIN calls :
    /\ calls[k].arg = <<PAbstract, LongBody, HAbstract>>
    /\ calls[k].result.sections["Abstract"] = <<PAbstract, LongBody, HAbstract>>
    /\ "Methods" \notin DOMAIN calls[k].result.sections

\* t is a numbering N(.N)*: digits and dots, a digit at both ends, no two
\* dots in a row
IsNumbering(t) ==
  /\ t # <<>>
  /\ \A i \in DOMAIN t : t[i] \in {"1", "."}
  /\ t[1] = "1" /\ t[Len(t)] = "1"
  /\ \A i \in 1..(Len(t) - 1) : ~(t[i] = "." /\ t[i + 1] = ".")

\* the number of separators inside t
Separators(t) == Cardinality({ i \in DOMAIN t : t[i] = "." })

\* the places <<p, q>> of line s where a numbering stands, from p to q - 1,
\* followed by a dot at q and then a blank or a letter
Numberings(s) ==
  { pq \in (DOMAIN s) \X (DOMAIN s) :
      /\ pq[1] < pq[2]
      /\ pq[2] + 1 <= Len(s)
      /\ IsNumbering(SubSeq(s, pq[1], pq[2] - 1))
      /\ s[pq[2]] = "."
      /\ s[pq[2] + 1] \in {" ", "x"} }

\* the number of "#" the line starts with
LeadingMarker(s) ==
  Cardinality({ i \in DOMAIN s : \A j \in 1..i : s[j] = "#" })

C25_UnrecognizedHeadings ==
  \A k \in DOMAIN calls :
    LET d == calls[k].arg
        u == calls[k].result.unrecognized
        m == calls[k].result.sections
    IN  /\ \A j \in DOMAIN u :
             /\ u[j][1] + 1 \in DOMAIN d
             /\ u[j] = <<u[j][1], d[u[j][1] + 1], 1>>
             /\ ~is_exclude_section(u[j][2])
             /\ \A name \in DOMAIN m : Min(Matches(d, name)) # u[j][1] + 1
        /\ \A j \in 1..(Len(u) - 1) : u[j][1] < u[j + 1][1]
        /\ { u[j][1] + 1 : j \in DOMAIN u } =
             { i \in DOMAIN d :
                 /\ d[i].hashes >= 1
                 /\ get_heading_level(d[i]) = 1
                 /\ \A name \in CriticalSections : ~MatchesSection(name, d[i])
                 /\ ~is_exclude_section(d[i]) }

\* C25 witness: two unrecognized level-1 headings around an exclusion heading
C25_Witness ==
  \E k \in DOMAIN calls :
    /\ calls[k].arg = <<HNumbered, HAcknowledgements, HOther>>
    /\ calls[k].result.unrecognized = << <<0, HNumbered, 1>>, <<2, HOther, 1>> >>

\* C26 as stated: the content the classification bridge cuts for the headers
\* of a category ends where the boundary scan of the heuristic extractor
\* would end a section that starts at the last of them with its level
\* (exclusion line, canonical heading of that level or above, numbered
\* heading of the same level, else the end of the document).
C26_BridgeEndIsResolverEnd ==
  (pc = "extract" /\ Truthy(classification)) =>
    \A T \in { classification.map[h] : h \in DOMAIN classification.map } :
      LET first == Min(PositionsOf(T))
          last == Max(PositionsOf(T))
          cut == IF T \in DOMAIN before
                 THEN Len(sections[T]) - Len(before[T]) - 1
                 ELSE Len(sections[T])
      IN  first + cut = SectionEnd(doc, "", SectionLevel(doc[last]), last + 1)

\* C27 as stated: once the classification bridge is over, the extraction
\* bridge is invoked (it calls the model, or finds its template missing)
\* whenever a canonical section is missing from the map or an entry is
\* shorter than the minimum, also after a successful classification that
\* leaves the five names present and one entry short.
C27_ExtractionStillRuns ==
  (/\ pc \in {"finish", "done"}
   /\ \/ \E name \in CriticalSections : name \notin DOMAIN before
      \/ \E name \in DOMAIN before : StrippedLen(before[name]) < MinContentLen)
  => \/ "extract" \in Range(model_calls)
     \/ request.shape = "no_template"

\* the place of a canonical name in the order of the pattern table
CanonicalIndex(name) == CHOOSE k \in DOMAIN SectionNames : SectionNames[k] = name

\* C28: when the extraction bridge calls the model on a non-empty map, the
\* request is the partial one; its targets are the canonical names absent
\* from the map, in the order of the table, followed by the entries of the map
\* whose stripped content is shorter than the minimum, each name once.  When
\* nothing is missing and nothing is short no call is made and the map stays
\* as it was.
C28_PartialTargets ==
  (pc \in {"finish", "done"} /\ DOMAIN before # {}) =>
    LET absent == CriticalSections \ DOMAIN before
        short == { name \in DOMAIN before : StrippedLen(before[name]) < MinContentLen }
    IN  /\ "extract" \in Range(model_calls) =>
             /\ request.shape = "partial"
             /\ Range(request.missing) = absent
             /\ Len(request.missing) = Cardinality(absent)
             /\ \A i \in 1..(Len(request.missing) - 1) :
                  CanonicalIndex(request.missing[i]) < CanonicalIndex(request.missing[i + 1])
             /\ request.short = short
             /\ absent \cup short # {}
        /\ (absent \cup short = {}) =>
             /\ "extract" \notin Range(model_calls)
             /\ request.shape = "none"
             /\ sections = before

\* C28 witness: a partial request for a missing section and a short entry,
\* answered by the model
C28_Witness ==
  /\ pc = "done"
  /\ DOMAIN before # {}
  /\ request.shape = "partial"
  /\ request.missing # <<>>
  /\ request.short # {}
  /\ Truthy(llm_sections)
  /\ sections # before

\* C29 as stated: the line ranges [start, end) of two different sections of
\* the map the heuristic extractor returns are disjoint: no line of the
\* document is in the content of two sections.
C29_DisjointRanges ==
  \A k \in DOMAIN calls : \A f, g \in Found(calls[k]) :
    f.name # g.name => f.end <= g.start \/ g.end <= f.start

\* C30: the map the heuristic pass returns has its keys among the five
\* canonical names, never "Results" or "Discussion" and never the name of an
\* exclusion section; it has five entries at most, so the quality gate never
\* sees more than 8 sections from it.
C30_CanonicalKeysOnly ==
  pc = "quality" =>
    /\ DOMAIN sections \subseteq
         {"Abstract", "Introduction", "Methods", "Results & Discussion", "Conclusion"}
    /\ "Results" \notin DOMAIN sections
    /\ "Discussion" \notin DOMAIN sections
    /\ Cardinality(DOMAIN sections) <= 5
    /\ ~(Cardinality(DOMAIN sections) > 8)
    /\ sections = HeuristicResult.sections

\* C30 witness: a paper with its five sections, unrecognized sections and a
\* Results heading gives a map of exactly the five canonical names
C30_Witness ==
  /\ pc = "quality"
  /\ doc = Paper("none", "none", "appended")
  /\ DOMAIN sections = CriticalSections
  /\ Cardinality(DOMAIN sections) = 5
  /\ unrecognized_headers # <<>>

=============================================================================
